---------------------------- MODULE Spec2Model ----------------------------
(***************************************************************************)
(* A model of gspread_dataframe.py: the cell serializer (_cellrepr,        *)
(* _escaped_string), the grid reader (_get_all_values, get_as_dataframe)   *)
(* and the two writers (set_with_dataframe, set_with_dataframes), run      *)
(* against a worksheet that holds a declared size and its cell values.     *)
(*                                                                         *)
(* Text is a sequence of one-character strings, so that startswith and the *)
(* "'%s" % value formatting are computed on characters.                    *)
(***************************************************************************)
EXTENDS Integers, Sequences, FiniteSets, TLC

VARIABLES
    worksheet,  \* the sheet: row_count, col_count, values (sparse listing)
    pc,         \* position of the calling script
    op,         \* the call in progress or just made, with its arguments
    prev,       \* the call made before it
    ret,        \* what the call returned or raised
    calls       \* the calls the last operation made on the worksheet

vars == <<worksheet, pc, op, prev, ret, calls>>

----------------------------------------------------------------------------
(* Bounds of the model. *)

MaxLen == 2          \* longest text of a cell value
MaxCols == 2         \* most data columns of a table
MaxDataRows == 2     \* most data rows of a table
MaxLevels == 2       \* most index levels of a table
MaxAnchor == 2       \* largest anchor row / column of a write
MaxSheet == 3        \* largest declared row / column count of a sheet
MaxTables == 2       \* most tables of a batch write
MaxListing == 2      \* most rows / cells per row of a listing read on its own

----------------------------------------------------------------------------
(* Values of a table cell and literals sent to the sheet. *)

Quote == "'"
Equals == "="
Chars == {Equals, Quote, "a"}

RECURSIVE TextsOfLen(_)
TextsOfLen(n) ==
    IF n = 0 THEN {<<>>}
    ELSE {<<c>> \o t : c \in Chars, t \in TextsOfLen(n - 1)}

Texts == UNION {TextsOfLen(n) : n \in 0..MaxLen}

\* One record shape for every value: t is the Python type of the value.
Val(t, n, s) == [t |-> t, n |-> n, s |-> s]
None == Val("none", 0, <<>>)             \* None
NaN == Val("nan", 0, <<>>)               \* float('nan')
Num(n) == Val("real", n, <<>>)           \* an int or a float
Str(s) == Val("str", 0, s)               \* a text string
Obj(s) == Val("obj", 0, s)               \* any other object; s is its str()
ValueError == Val("ValueError", 0, <<>>) \* the exception of _escaped_string

Values ==
    {None, NaN, Num(0), Num(1)} \cup {Str(s) : s \in Texts}
        \cup {Obj(s) : s \in Texts}

StartsWith(s, c) == Len(s) > 0 /\ s[1] = c

\* pd.isnull(value) is True
IsNull(v) == v.t \in {"none", "nan"}

\* isinstance(value, Real): a NaN is a float
IsReal(v) == v.t \in {"real", "nan"}

\* the text of a value that is not a number: the string itself, or
\* str(value) of another object, through ensure_text
TextOf(v) == v.s

----------------------------------------------------------------------------
(* string_escaping: the three names, callables, anything else. *)

Callables == {"fn_never", "fn_always", "fn_equals"}
Policies == {"default", "off", "full"} \cup Callables \cup {"bogus"}

\* callable(string_escaping)
IsCallable(se) == se \in Callables

\* string_escaping(value) for the callables of the model
CallPredicate(se, s) ==
    CASE se = "fn_never" -> FALSE
      [] se = "fn_always" -> TRUE
      [] se = "fn_equals" -> StartsWith(s, Equals)

\* "'%s" % value
Quoted(s) == <<Quote>> \o s

EscapedStringNoEmptyCheck(s, se) ==
    IF se = "default" THEN
        IF StartsWith(s, Quote) THEN Str(Quoted(s)) ELSE Str(s)
    ELSE IF se = "off" THEN Str(s)
    ELSE IF se = "full" THEN Str(Quoted(s))
    ELSE IF IsCallable(se) THEN
        IF CallPredicate(se, s) THEN Str(Quoted(s)) ELSE Str(s)
    ELSE ValueError

EscapedStringFullAsDefault(s, se) ==
    IF s = <<>> THEN Str(<<>>)
    ELSE IF se \in {"default", "full"} THEN
        IF StartsWith(s, Quote) THEN Str(Quoted(s)) ELSE Str(s)
    ELSE IF se = "off" THEN Str(s)
    ELSE IF IsCallable(se) THEN
        IF CallPredicate(se, s) THEN Str(Quoted(s)) ELSE Str(s)
    ELSE ValueError

EscapedStringNoQuoteEscape(s, se) ==
    IF s = <<>> THEN Str(<<>>)
    ELSE IF se \in {"default", "off"} THEN Str(s)
    ELSE IF se = "full" THEN Str(Quoted(s))
    ELSE IF IsCallable(se) THEN
        IF CallPredicate(se, s) THEN Str(Quoted(s)) ELSE Str(s)
    ELSE ValueError

\* _escaped_string(value, string_escaping)
EscapedString(s, se) ==
    IF s = <<>> THEN Str(<<>>)
    ELSE IF se = "default" THEN
        IF StartsWith(s, Quote) THEN Str(Quoted(s)) ELSE Str(s)
    ELSE IF se = "off" THEN Str(s)
    ELSE IF se = "full" THEN Str(Quoted(s))
    ELSE IF IsCallable(se) THEN
        IF CallPredicate(se, s) THEN Str(Quoted(s)) ELSE Str(s)
    ELSE ValueError

CellReprPolicyFirst(v, allow_formulas, se) ==
    IF IsNull(v) THEN Str(<<>>)
    ELSE IF IsReal(v) THEN v
    ELSE IF se = "off" THEN Str(TextOf(v))
    ELSE IF (~allow_formulas) /\ StartsWith(TextOf(v), Equals)
        THEN Str(Quoted(TextOf(v)))
    ELSE EscapedString(TextOf(v), se)

CellReprRealFirst(v, allow_formulas, se) ==
    IF IsReal(v) THEN v
    ELSE IF IsNull(v) THEN Str(<<>>)
    ELSE IF (~allow_formulas) /\ StartsWith(TextOf(v), Equals)
        THEN Str(Quoted(TextOf(v)))
    ELSE EscapedString(TextOf(v), se)

\* _cellrepr(value, allow_formulas, string_escaping)
CellRepr(v, allow_formulas, se) ==
    IF IsNull(v) THEN Str(<<>>)
    ELSE IF IsReal(v) THEN v
    ELSE IF (~allow_formulas) /\ StartsWith(TextOf(v), Equals)
        THEN Str(Quoted(TextOf(v)))
    ELSE EscapedString(TextOf(v), se)

----------------------------------------------------------------------------
(* The worksheet.  values is the listing values_get returns: rows up to    *)
(* the last row holding a cell, each row up to its last non-blank cell.    *)

Blank == Str(<<>>)

Sheet(r, c, vals) == [row_count |-> r, col_count |-> c, values |-> vals]

APIError == Val("APIError", 0, <<>>)     \* update refused by the sheet

Max(a, b) == IF a >= b THEN a ELSE b
Min(a, b) == IF a <= b THEN a ELSE b

RECURSIVE MaxOver(_, _)
\* max(f[1], ..., f[n]) of a sequence of naturals, 0 when it is empty
MaxOver(f, n) == IF n = 0 THEN 0 ELSE Max(f[n], MaxOver(f, n - 1))

RECURSIVE TrimRow(_)
\* a row without its trailing blank cells
TrimRow(row) ==
    IF row = <<>> THEN <<>>
    ELSE IF row[Len(row)] = Blank THEN TrimRow(SubSeq(row, 1, Len(row) - 1))
    ELSE row

RECURSIVE TrimRows(_)
\* a listing without its trailing empty rows
TrimRows(rows) ==
    IF rows = <<>> THEN <<>>
    ELSE IF rows[Len(rows)] = <<>>
        THEN TrimRows(SubSeq(rows, 1, Len(rows) - 1))
    ELSE rows

\* the listing of a dense grid of cells
Listing(grid) == TrimRows([i \in 1..Len(grid) |-> TrimRow(grid[i])])

\* the cell at (i, j) of a listing; blank when the listing omits it
CellAt(vals, i, j) ==
    IF i <= Len(vals) /\ j <= Len(vals[i]) THEN vals[i][j] ELSE Blank

\* What the sheet keeps of a literal entered with USER_ENTERED: a leading
\* quote marks text and is dropped, a leading = makes a formula.
Entered(lit) ==
    IF lit.t = "str" /\ StartsWith(lit.s, Quote) THEN Str(Tail(lit.s))
    ELSE IF lit.t = "str" /\ StartsWith(lit.s, Equals)
        THEN Val("formula", 0, lit.s)
    ELSE lit

\* What values_get renders of a cell: the formula itself with FORMULA, the
\* value it computes (left uninterpreted) with UNFORMATTED_VALUE.
Rendered(cell, evaluate_formulas) ==
    IF cell.t = "formula"
        THEN IF evaluate_formulas THEN Val("computed", 0, cell.s)
             ELSE Str(cell.s)
    ELSE cell

\* worksheet.spreadsheet.values_get(...).get("values", [])
ValuesGet(ws, evaluate_formulas) ==
    [i \in 1..Len(ws.values) |->
        [j \in 1..Len(ws.values[i]) |->
            Rendered(ws.values[i][j], evaluate_formulas)]]

\* gspread.utils.fill_gaps(L, rows, cols): pads, never truncates
FillGaps(L, rows, cols) ==
    LET padded == L \o [i \in 1..(rows - Len(L)) |-> <<>>]
    IN  [i \in 1..Len(padded) |->
            padded[i] \o [j \in 1..(cols - Len(padded[i])) |-> Blank]]

GetAllValuesKeepRows(ws, evaluate_formulas) ==
    LET rect_values ==
            FillGaps(ValuesGet(ws, evaluate_formulas),
                     ws.row_count, ws.col_count)
        widths == [i \in 1..Len(rect_values) |-> Len(rect_values[i])]
        ncols == MaxOver(widths, Len(widths))
    IN  [i \in 1..Len(rect_values) |->
            [j \in 1..ncols |-> CellAt(rect_values, i, j)]]

\* _get_all_values(worksheet, evaluate_formulas)
GetAllValues(ws, evaluate_formulas) ==
    LET rect_values ==
            FillGaps(ValuesGet(ws, evaluate_formulas),
                     ws.row_count, ws.col_count)
        \* the keys of the rows dict: the rows that hold a cell
        keys == {i \in 1..Len(rect_values) : Len(rect_values[i]) > 0}
        widths == [i \in 1..Len(rect_values) |-> Len(rect_values[i])]
        ncols == MaxOver(widths, Len(widths))
        nrows == CHOOSE i \in keys : \A k \in keys : k <= i
    IN  IF keys = {} THEN <<>>
        ELSE [i \in 1..nrows |->
                [j \in 1..ncols |-> CellAt(rect_values, i, j)]]

\* _resize_to_minimum(worksheet, rows, cols): the resize call it makes, if
\* any.  A 0 stands for None.  No function of the module calls it.
ResizeToMinimum(ws, rows, cols) ==
    LET r == IF rows # 0 /\ rows <= ws.row_count THEN 0 ELSE rows
        c == IF cols # 0 /\ cols <= ws.col_count THEN 0 ELSE cols
    IN  IF c # 0 \/ r # 0
            THEN <<[fn |-> "resize", rows |-> r, cols |-> c]>>
        ELSE <<>>

\* worksheet.update_cells(cell_list, value_input_option): one values_update
\* of the rectangle bounding the cells, cells not listed sent as ''.
BoundRows(cells) == {cells[k].row : k \in 1..Len(cells)}
BoundCols(cells) == {cells[k].col : k \in 1..Len(cells)}
SetMax(S) == CHOOSE x \in S : \A y \in S : y <= x
SetMin(S) == CHOOSE x \in S : \A y \in S : x <= y

Fits(ws, cells) ==
    /\ SetMax(BoundRows(cells)) <= ws.row_count
    /\ SetMax(BoundCols(cells)) <= ws.col_count

\* the literal the rectangle holds at (i, j): the last cell listed there
SentAt(cells, i, j) ==
    LET at == {k \in 1..Len(cells) : cells[k].row = i /\ cells[k].col = j}
    IN  IF at = {} THEN Blank ELSE cells[SetMax(at)].value

UpdateCells(ws, cells) ==
    LET r1 == SetMin(BoundRows(cells))
        r2 == SetMax(BoundRows(cells))
        c1 == SetMin(BoundCols(cells))
        c2 == SetMax(BoundCols(cells))
        grid == [i \in 1..ws.row_count |-> [j \in 1..ws.col_count |->
                    IF i \in r1..r2 /\ j \in c1..c2
                        THEN Entered(SentAt(cells, i, j))
                    ELSE CellAt(ws.values, i, j)]]
    IN  IF Fits(ws, cells)
            THEN Sheet(ws.row_count, ws.col_count, Listing(grid))
        ELSE ws

----------------------------------------------------------------------------
(* Tables.  columns: the column labels; index_names: one name per index    *)
(* level; index: per data row, one value per level; values: the data rows. *)

Table(columns, index_names, index, values) ==
    [columns |-> columns, index_names |-> index_names,
     index |-> index, values |-> values]

\* The values tables are filled with, in turn.
Palette ==
    <<Str(<<"a">>), Num(1), Str(<<Equals, "a">>), None, Blank,
      Str(<<Quote, "a">>)>>
TextPalette ==
    <<Str(<<"a">>), Str(<<Quote, "a">>), Str(<<Equals, "a">>), Blank>>

Pick(pal, k) == pal[(k % Len(pal)) + 1]

\* The table of ncols columns, nrows rows and nlevels index levels whose
\* labels, data and index values run through pal from position shift.
TableOf(pal, ncols, nrows, nlevels, shift) ==
    Table([j \in 1..ncols |-> Pick(pal, shift + j - 1)],
          [m \in 1..nlevels |-> Pick(pal, shift + ncols + m)],
          [i \in 1..nrows |-> [m \in 1..nlevels |-> Pick(pal, shift + i + m)]],
          [i \in 1..nrows |->
              [j \in 1..ncols |-> Pick(pal, shift + i * ncols + j - 1)]])

TablesOf(pal, levels, shifts) ==
    {TableOf(pal, nc, nr, nl, sh) :
        nc \in 0..MaxCols, nr \in 0..MaxDataRows, nl \in levels, sh \in shifts}

Tables == TablesOf(Palette, 1..MaxLevels, 0..(Len(Palette) - 1))
TextTables == TablesOf(TextPalette, {1}, 0..(Len(TextPalette) - 1))
BatchTables == TablesOf(Palette, {1}, {0})

----------------------------------------------------------------------------
(* The write plans. *)

Cell(row, col, value) == [row |-> row, col |-> col, value |-> value]

\* for idx, val in enumerate(elts): updates.append((row, col+idx, _cellrepr))
RowCells(elts, row, col, allow_formulas, se) ==
    [idx \in 1..Len(elts) |->
        Cell(row, col + idx - 1, CellRepr(elts[idx], allow_formulas, se))]

\* the header elements: index names, when asked for, then column labels
HeaderElts(df, include_index) ==
    (IF include_index THEN df.index_names ELSE <<>>) \o df.columns

\* the rows of values: index values, when asked for, then the data row
ValueRows(df, include_index) ==
    [i \in 1..Len(df.values) |->
        (IF include_index THEN df.index[i] ELSE <<>>) \o df.values[i]]

RECURSIVE DataCells(_, _, _, _, _, _)
\* for y_idx, value_row in enumerate(values): ... the first n rows
DataCells(values, n, row, col, allow_formulas, se) ==
    IF n = 0 THEN <<>>
    ELSE DataCells(values, n - 1, row, col, allow_formulas, se)
            \o RowCells(values[n], row + n - 1, col, allow_formulas, se)

TablePlanHeaderAfterIndex(df, row, col, include_index, include_column_header, allow_formulas, se) ==
    LET header == IF include_column_header
                    THEN RowCells(df.columns \o
                            (IF include_index THEN df.index_names ELSE <<>>),
                            row, col, allow_formulas, se)
                  ELSE <<>>
        row2 == IF include_column_header THEN row + 1 ELSE row
        values == ValueRows(df, include_index)
    IN  header \o DataCells(values, Len(values), row2, col, allow_formulas, se)

\* the updates list of set_with_dataframe
TablePlan(df, row, col, include_index, include_column_header, allow_formulas, se) ==
    LET header == IF include_column_header
                    THEN RowCells(HeaderElts(df, include_index),
                                  row, col, allow_formulas, se)
                  ELSE <<>>
        row2 == IF include_column_header THEN row + 1 ELSE row
        values == ValueRows(df, include_index)
    IN  header \o DataCells(values, Len(values), row2, col, allow_formulas, se)

RECURSIVE TablesPlan(_, _, _, _, _, _, _)
\* the updates list of set_with_dataframes over the first n pairs of
\* zip(dataframe_list, row_list): the header row is planned whatever
\* include_column_header is
TablesPlan(dataframe_list, row_list, n, col, include_index, allow_formulas, se) ==
    IF n = 0 THEN <<>>
    ELSE LET df == dataframe_list[n]
             row == row_list[n]
             values == ValueRows(df, include_index)
         IN  TablesPlan(dataframe_list, row_list, n - 1, col, include_index,
                        allow_formulas, se)
                \o RowCells(HeaderElts(df, include_index), row, col,
                            allow_formulas, se)
                \o DataCells(values, Len(values), row + 1, col,
                             allow_formulas, se)

\* _cellrepr raised while the updates were planned
Raises(updates) == \E k \in 1..Len(updates) : updates[k].value = ValueError

\* if not updates: return; else one update_cells call, 'USER_ENTERED'
Submit(updates) ==
    IF Raises(updates) THEN
        /\ ret' = ValueError
        /\ calls' = <<>>
        /\ UNCHANGED worksheet
    ELSE IF updates = <<>> THEN
        /\ ret' = None
        /\ calls' = <<>>
        /\ UNCHANGED worksheet
    ELSE
        /\ calls' = <<[fn |-> "update_cells", cells |-> updates,
                       value_input_option |-> "USER_ENTERED"]>>
        /\ worksheet' = UpdateCells(worksheet, updates)
        /\ ret' = IF Fits(worksheet, updates) THEN None ELSE APIError

----------------------------------------------------------------------------
(* The operations. *)

NoOp == [name |-> "none"]

\* A call of _cellrepr on its own.
CallCellRepr(v, allow_formulas, se) ==
    /\ pc = "ready"
    /\ op' = [name |-> "_cellrepr", value |-> v,
              allow_formulas |-> allow_formulas, string_escaping |-> se]
    /\ pc' = "returned"
    /\ prev' = op
    /\ ret' = CellRepr(v, allow_formulas, se)
    /\ UNCHANGED <<worksheet, calls>>

\* set_with_dataframe(worksheet, dataframe, row, col, ...)
SetWithDataframe(df, row, col, include_index, include_column_header, resize, allow_formulas, se) ==
    /\ pc = "ready"
    /\ pc' = "written"
    /\ prev' = op
    /\ op' = [name |-> "set_with_dataframe", dataframe |-> df,
              row |-> row, col |-> col, include_index |-> include_index,
              include_column_header |-> include_column_header,
              resize |-> resize, allow_formulas |-> allow_formulas,
              string_escaping |-> se]
    /\ Submit(TablePlan(df, row, col, include_index, include_column_header,
                        allow_formulas, se))

\* set_with_dataframes(worksheet, dataframe_list, row_list, col, ...)
SetWithDataframes(dataframe_list, row_list, col, include_index, include_column_header, resize, allow_formulas, se) ==
    /\ pc = "ready"
    /\ pc' = "written"
    /\ prev' = op
    /\ op' = [name |-> "set_with_dataframes",
              dataframe_list |-> dataframe_list, row_list |-> row_list,
              col |-> col, include_index |-> include_index,
              include_column_header |-> include_column_header,
              resize |-> resize, allow_formulas |-> allow_formulas,
              string_escaping |-> se]
    /\ Submit(TablesPlan(dataframe_list, row_list,
                         Min(Len(dataframe_list), Len(row_list)), col,
                         include_index, allow_formulas, se))

\* get_as_dataframe(worksheet, evaluate_formulas): ret is the grid handed
\* to TextParser
GetAsDataframe(evaluate_formulas) ==
    /\ pc \in {"ready", "written"}
    /\ pc' = "read"
    /\ prev' = op
    /\ op' = [name |-> "get_as_dataframe",
              evaluate_formulas |-> evaluate_formulas]
    /\ calls' = <<[fn |-> "values_get",
                   valueRenderOption |->
                       IF evaluate_formulas THEN "UNFORMATTED_VALUE"
                       ELSE "FORMULA"]>>
    /\ ret' = GetAllValues(worksheet, evaluate_formulas)
    /\ UNCHANGED worksheet

----------------------------------------------------------------------------
(* The serializer on its own. *)

InitCell ==
    /\ worksheet = Sheet(1, 1, <<>>)
    /\ pc = "ready"
    /\ op = NoOp
    /\ prev = NoOp
    /\ ret = Blank
    /\ calls = <<>>

NextCell ==
    /\ pc = "ready"
    /\ \E v \in Values, allow_formulas \in BOOLEAN, se \in Policies :
        CallCellRepr(v, allow_formulas, se)

SpecCell == InitCell /\ [][NextCell]_vars

----------------------------------------------------------------------------
(* The single-table writer over tables of every shape and every flag. *)

WritePolicies == {"default", "off", "full", "fn_equals", "bogus"}
Anchors == 1..MaxAnchor

BlankSheet(r, c) == Sheet(r, c, <<>>)

\* the sheet with every cell holding the text z
FilledSheet(r, c) ==
    Sheet(r, c, [i \in 1..r |-> [j \in 1..c |-> Str(<<"z">>)]])

Idle ==
    /\ pc = "ready"
    /\ op = NoOp
    /\ prev = NoOp
    /\ ret = Blank
    /\ calls = <<>>

InitWrite ==
    /\ worksheet = BlankSheet(MaxSheet, MaxSheet)
    /\ Idle

NextWrite ==
    /\ pc = "ready"
    /\ \E df \in Tables, row \in Anchors, col \in Anchors,
       include_index \in BOOLEAN, include_column_header \in BOOLEAN,
       resize \in BOOLEAN, allow_formulas \in BOOLEAN, se \in WritePolicies :
        SetWithDataframe(df, row, col, include_index, include_column_header,
                         resize, allow_formulas, se)

SpecWrite == InitWrite /\ [][NextWrite]_vars

----------------------------------------------------------------------------
(* The batch writer beside the single-table writer. *)

SeqsUpTo(S, n) == UNION {[1..k -> S] : k \in 0..n}

BatchPolicies == {"default", "bogus"}

InitBatch ==
    /\ worksheet = BlankSheet(MaxSheet, MaxSheet)
    /\ Idle

NextBatch ==
    \/ /\ pc = "ready"
       /\ \E dataframe_list \in SeqsUpTo(BatchTables, MaxTables),
             row_list \in SeqsUpTo(Anchors, MaxTables), col \in Anchors,
             include_index \in BOOLEAN, include_column_header \in BOOLEAN,
             resize \in BOOLEAN, allow_formulas \in BOOLEAN,
             se \in BatchPolicies :
               SetWithDataframes(dataframe_list, row_list, col, include_index,
                                 include_column_header, resize,
                                 allow_formulas, se)
    \/ /\ pc = "ready"
       /\ \E df \in BatchTables, row \in Anchors, col \in Anchors,
             include_index \in BOOLEAN, include_column_header \in BOOLEAN,
             resize \in BOOLEAN, allow_formulas \in BOOLEAN,
             se \in BatchPolicies :
               SetWithDataframe(df, row, col, include_index,
                                include_column_header, resize,
                                allow_formulas, se)

SpecBatch == InitBatch /\ [][NextBatch]_vars

----------------------------------------------------------------------------
(* A script on a sheet of any size: it writes a table of text, then reads  *)
(* the sheet back.                                                         *)

Init ==
    /\ \E r \in 1..MaxSheet, c \in 1..MaxSheet :
          worksheet \in {BlankSheet(r, c), FilledSheet(r, c)}
    /\ Idle

Next ==
    \/ /\ pc = "ready"
       /\ \E df \in TextTables, row \in Anchors, col \in Anchors,
          include_index \in BOOLEAN, include_column_header \in BOOLEAN,
          resize \in BOOLEAN :
            SetWithDataframe(df, row, col, include_index,
                             include_column_header, resize, TRUE, "default")
    \/ \E evaluate_formulas \in BOOLEAN : GetAsDataframe(evaluate_formulas)

Spec == Init /\ [][Next]_vars

----------------------------------------------------------------------------
(* The grid reader on any listing the API may return and any declared     *)
(* size, 0 included.                                                       *)

\* the rows of a listing: at most n cells, the last one not blank
ListingRows(n) ==
    {<<>>} \cup
    UNION {{row \o <<Str(<<"a">>)>> : row \in [1..k -> {Blank, Str(<<"a">>)}]} :
            k \in 0..(n - 1)}

\* the listings: at most n rows, the last one not empty
Listings(n) ==
    {<<>>} \cup
    UNION {{rows \o <<last>> : rows \in [1..k -> ListingRows(n)],
                               last \in ListingRows(n) \ {<<>>}} :
            k \in 0..(n - 1)}

InitGrid ==
    /\ \E r \in 0..MaxSheet, c \in 0..MaxSheet, vals \in Listings(MaxListing) :
          worksheet = Sheet(r, c, vals)
    /\ Idle

NextGrid == \E evaluate_formulas \in BOOLEAN : GetAsDataframe(evaluate_formulas)

SpecGrid == InitGrid /\ [][NextGrid]_vars

----------------------------------------------------------------------------
(* Claims about the cell serializer, checked under SpecCell. *)

IsCellReprCall == op.name = "_cellrepr"

\* the value is neither null nor a number: its text reaches the escaping
IsTextual(v) == ~IsNull(v) /\ ~IsReal(v)

\* C1: whatever string_escaping is, a non-null, non-numeric value whose text
\* starts with = is returned as a quote followed by the unchanged text when
\* allow_formulas is false.
C1_FormulaEscapingPrecedence ==
    (/\ IsCellReprCall
     /\ IsTextual(op.value)
     /\ StartsWith(TextOf(op.value), Equals)
     /\ ~op.allow_formulas)
        => ret = Str(<<Quote>> \o TextOf(op.value))

C1_Witness ==
    /\ IsCellReprCall
    /\ op.value = Str(<<Equals, "a">>)
    /\ ~op.allow_formulas
    /\ op.string_escaping = "off"
    /\ ret = Str(<<Quote, Equals, "a">>)

\* formula-escaping does not catch the value
NotFormulaEscaped(v, allow_formulas) ==
    allow_formulas \/ ~StartsWith(TextOf(v), Equals)

C9_NullMapping ==
    (IsCellReprCall /\ IsNull(op.value)) => ret = Str(<<>>)

C9_Witness ==
    /\ IsCellReprCall
    /\ op.value = NaN
    /\ op.string_escaping = "bogus"
    /\ ret = Str(<<>>)

----------------------------------------------------------------------------
(* Claims about the single-table writer, checked under SpecWrite. *)

IsWrite == op.name = "set_with_dataframe"

\* the writes the operation submitted
Submitted == IF calls = <<>> THEN <<>> ELSE calls[1].cells

\* the shape of the table written and of its plan
NCols == Len(op.dataframe.columns)
NRows == Len(op.dataframe.values)
H == IF op.include_column_header THEN 1 ELSE 0
K == IF op.include_index THEN Len(op.dataframe.index_names) ELSE 0
W == K + NCols

\* the values the plan serializes: the header's, when asked for, and the
\* data rows' with their index values, when asked for
PlannedValues ==
    (IF op.include_column_header
        THEN {op.dataframe.columns[j] : j \in 1..NCols}
             \cup (IF op.include_index
                    THEN {op.dataframe.index_names[m] : m \in 1..K}
                   ELSE {})
     ELSE {})
    \cup {op.dataframe.values[i][j] : i \in 1..NRows, j \in 1..NCols}
    \cup (IF op.include_index
            THEN {op.dataframe.index[i][m] : i \in 1..NRows, m \in 1..K}
          ELSE {})

PlannedCount == H * W + NRows * W

IsInvalidPolicy(se) == se \notin {"default", "off", "full"} /\ ~IsCallable(se)

\* C3 as claimed: with an invalid string_escaping, a write of a table with
\* at least one planned cell raises the configuration error and issues no
\* cell-update call, for every allow_formulas.
C3_InvalidPolicyAlwaysFails ==
    (IsWrite /\ IsInvalidPolicy(op.string_escaping) /\ PlannedCount > 0)
        => (ret = ValueError /\ calls = <<>>)

\* the value gets as far as the dispatch on string_escaping
ReachesPolicy(v, allow_formulas) ==
    /\ IsTextual(v)
    /\ TextOf(v) # <<>>
    /\ NotFormulaEscaped(v, allow_formulas)

\* C3 as amended: with an invalid string_escaping, a write raises the
\* configuration error and issues no cell-update call exactly when some
\* planned cell holds a non-null, non-numeric value with a non-empty text
\* that formula-escaping does not catch; a plan of nulls, numbers, empty
\* texts and escaped formulas is written without error.
C3_InvalidPolicyFailsOnText ==
    (IsWrite /\ IsInvalidPolicy(op.string_escaping))
        => /\ (ret = ValueError) <=>
                (\E v \in PlannedValues : ReachesPolicy(v, op.allow_formulas))
           /\ (ret = ValueError) => calls = <<>>
           /\ (ret # ValueError /\ PlannedCount > 0) =>
                (Len(calls) = 1 /\ Len(calls[1].cells) = PlannedCount)

C3_Witness ==
    /\ IsWrite
    /\ IsInvalidPolicy(op.string_escaping)
    /\ NCols = 2 /\ NRows = 2
    /\ ret = ValueError
    /\ calls = <<>>

\* C10: with anchor (r, c), h header rows and k index columns, the plan
\* holds the header cells (index names at (r, c + m), labels at
\* (r, c + k + j)) followed by the data rows in order (index values at
\* (r + h + i, c + m), data values at (r + h + i, c + k + j)); its writes
\* are in ascending row-major order and no two target the same cell.
C10_PlanLayout ==
    (IsWrite /\ ret # ValueError) =>
        LET plan == Submitted
            df == op.dataframe
            lit(v) == CellRepr(v, op.allow_formulas, op.string_escaping)
        IN  /\ Len(plan) = PlannedCount
            /\ H = 1 =>
                /\ \A m \in 1..K :
                    plan[m] = Cell(op.row, op.col + (m - 1),
                                   lit(df.index_names[m]))
                /\ \A j \in 1..NCols :
                    plan[K + j] = Cell(op.row, op.col + K + (j - 1),
                                       lit(df.columns[j]))
            /\ \A i \in 1..NRows :
                /\ \A m \in 1..K :
                    plan[H * W + (i - 1) * W + m] =
                        Cell(op.row + H + (i - 1), op.col + (m - 1),
                             lit(df.index[i][m]))
                /\ \A j \in 1..NCols :
                    plan[H * W + (i - 1) * W + K + j] =
                        Cell(op.row + H + (i - 1), op.col + K + (j - 1),
                             lit(df.values[i][j]))
            /\ \A p \in 1..Len(plan), q \in 1..Len(plan) :
                p < q => \/ plan[p].row < plan[q].row
                         \/ /\ plan[p].row = plan[q].row
                            /\ plan[p].col < plan[q].col

C10_Witness ==
    /\ IsWrite
    /\ op.include_index /\ op.include_column_header
    /\ NCols = 2 /\ NRows = 2 /\ K = 2
    /\ op.row = 2 /\ op.col = 2
    /\ Len(Submitted) = 12
    /\ Submitted[12].row = 4 /\ Submitted[12].col = 5

----------------------------------------------------------------------------
(* Claims about the batch writer, checked under SpecBatch. *)

IsBatchWrite == op.name = "set_with_dataframes"

\* the pairs of zip(dataframe_list, row_list)
NPairs == Min(Len(op.dataframe_list), Len(op.row_list))

RECURSIVE SinglePlans(_)
\* the plans of the single-table writer for the first n pairs, in order
SinglePlans(n) ==
    IF n = 0 THEN <<>>
    ELSE SinglePlans(n - 1)
            \o TablePlan(op.dataframe_list[n], op.row_list[n], op.col,
                         op.include_index, op.include_column_header,
                         op.allow_formulas, op.string_escaping)

\* C6: the writes the batch writer submits are the plans of the
\* single-table writer for each (table, anchor row) pair with the same
\* flags, concatenated in list order.
C6_BatchIsRepeatedSingle ==
    (IsBatchWrite /\ ret # ValueError /\ ~Raises(SinglePlans(NPairs)))
        => Submitted = SinglePlans(NPairs)

\* the plan is empty by the claim's account: a table with no columns and
\* no rows (the index not asked for), or no header asked for and no rows
EmptyByShape(df, include_index, include_column_header) ==
    \/ Len(df.columns) = 0 /\ Len(df.values) = 0 /\ ~include_index
    \/ ~include_column_header /\ Len(df.values) = 0

PlanEmptyByShape ==
    IF IsWrite
        THEN EmptyByShape(op.dataframe, op.include_index,
                          op.include_column_header)
    ELSE \A n \in 1..NPairs :
            EmptyByShape(op.dataframe_list[n], op.include_index,
                         op.include_column_header)

\* C7: a write operation issues at most one call, an update_cells call
\* with the 'USER_ENTERED' input mode that carries every planned write, and
\* none when the plan is empty (no columns and no rows, or no header asked
\* for and no data rows): it then returns without error.
C7_OutboundCalls ==
    (IsWrite \/ IsBatchWrite) =>
        /\ Len(calls) <= 1
        /\ \A k \in 1..Len(calls) :
            /\ calls[k].fn = "update_cells"
            /\ calls[k].value_input_option = "USER_ENTERED"
        /\ (IsWrite /\ calls # <<>>) => Len(calls[1].cells) = PlannedCount
        /\ PlanEmptyByShape => (calls = <<>> /\ ret = None)

----------------------------------------------------------------------------
(* Claims about a write followed by a read, checked under Spec. *)

\* the cell-update calls of the last operation
UpdateCalls == {k \in 1..Len(calls) : calls[k].fn = "update_cells"}

\* C4: after a write with resize = false, every written cell lies inside
\* the sheet's declared size: a written range beyond the declared row or
\* column count is preceded by a resize that grows the sheet to hold it.
C4_WrittenCellsInsideSheet ==
    (IsWrite /\ ~op.resize) =>
        \A k \in UpdateCalls : \A n \in 1..Len(calls[k].cells) :
            /\ calls[k].cells[n].row <= worksheet.row_count
            /\ calls[k].cells[n].col <= worksheet.col_count

\* a read with default options after a write at (1, 1) of the labels and
\* the data, without the index
IsRoundTrip ==
    /\ pc = "read"
    /\ op.name = "get_as_dataframe"
    /\ ~op.evaluate_formulas
    /\ prev.name = "set_with_dataframe"
    /\ prev.row = 1 /\ prev.col = 1
    /\ ~prev.include_index
    /\ prev.include_column_header
    /\ ~prev.resize

\* the labels and the data rows of the table written
TableGrid(df) == <<df.columns>> \o df.values

\* the written range of the round trip lies within the declared size
RoundTripFits ==
    /\ Len(TableGrid(prev.dataframe)) <= worksheet.row_count
    /\ Len(prev.dataframe.columns) <= worksheet.col_count

----------------------------------------------------------------------------
(* Claims about the grid reader, checked under SpecGrid. *)

IsRead == op.name = "get_as_dataframe"

\* the largest row and column index of a cell of the listing
MaxRowIn(vals) == Len(vals)
MaxColIn(vals) == MaxOver([i \in 1..Len(vals) |-> Len(vals[i])], Len(vals))

=============================================================================
